---- MODULE Spec2Model ----
(***************************************************************************)
(* The crawl pipeline of reading-addiction: `main` (Commands::Crawl) in    *)
(* src/main.rs and `spawn_worker` in src/worker.rs.                        *)
(*                                                                         *)
(* Processes: the orchestrator `main` (which also runs the result loop),   *)
(* the Seeder task spawned by main, and the pool of worker tasks.  They    *)
(* communicate through the bounded work queue (async_channel) and the      *)
(* bounded results channel (tokio mpsc).  Every `.await` of the code is a  *)
(* step boundary of the model.                                             *)
(***************************************************************************)
EXTENDS Integers, Sequences, FiniteSets, TLC

(***************************************************************************)
(* Bounds of the model.  The program runs 16 workers on channels of        *)
(* capacity 64; the model keeps the structure and scales the numbers.      *)
(***************************************************************************)
MaxK == 2
NumWorkers == 2
QueueCap == 1
ResultCap == 1

Workers == 1..NumWorkers

\* A worker slot that holds no WorkItem / no response / no output.
None == [none |-> TRUE]

(***************************************************************************)
(* What the network can answer.  A response has a status code and a body;  *)
(* the body is an HTML document of one of three kinds, or bytes that       *)
(* cannot be read as text.  The answers tried are: no answer, each body    *)
(* with status 200, and an article with each status.                       *)
(***************************************************************************)
Statuses == {200, 404}
Bodies == {"article", "stub", "poison", "undecodable"}

\* client.get(url).send().await : Err, or Ok(response)
FetchResults ==
    {[ok |-> FALSE, status |-> 0, body |-> "none"]}
        \cup [ok : {TRUE}, status : {200}, body : Bodies]
        \cup [ok : {TRUE}, status : Statuses, body : {"article"}]

\* res.text().await : Err, or Ok(html)
Decode(body) ==
    IF body = "undecodable" THEN [ok |-> FALSE, html |-> "none"]
                            ELSE [ok |-> TRUE, html |-> body]

\* The closure run by spawn_blocking: Readability::new(..).unwrap().parse().
\* "panic" is the unwrap (or the parser) panicking, which spawn_blocking's
\* JoinHandle reports as Err(JoinError).
Readability(html) ==
    CASE html = "article" -> "ok"
      [] html = "stub"    -> "err"
      [] html = "poison"  -> "panic"

(***************************************************************************)
(* WorkerOutput = Result<CrawledArticle>.  `req` is not a field of the     *)
(* program's value: it records which request the output was produced for.  *)
(* `url` is the URL the value itself carries (0: it carries none).         *)
(***************************************************************************)
OkArticle(u, status, html) ==
    [req |-> u, ok |-> TRUE, msg |-> "article", url |-> u,
     status |-> status, html |-> html]

ErrOutput(u, msg, carried) ==
    [req |-> u, ok |-> FALSE, msg |-> msg, url |-> carried,
     status |-> 0, html |-> "none"]

\* The failure reason of the specification that an error message stands for.
Reason(o) ==
    CASE o.ok -> "none"
      [] o.msg = "failed to fetch" -> "transport-error"
      [] o.msg = "failed to decode response from" -> "decode-error"
      [] o.msg = "failed to parse" -> "extraction-error"
      [] o.msg = "dom_smoothie parser panicked on" -> "extraction-panic"

VARIABLES
    main_pc,          \* where main is: start, candidates, collect, join, done,
                      \*   failed (setup error), aborted (save_crawl error)
    candidates,       \* Vec<ItemHandle> returned by get_uncrawled_items
    seeder_pc,        \* the Seeder task: none, run, done
    seeder_i,         \* index of the next candidate the Seeder sends
    enqueued,         \* requests the Seeder's sends put in the work queue
    work_q,           \* buffer of the async_channel (WorkItems)
    work_q_cap,       \* capacity the async_channel was created with
    work_q_senders,   \* live Sender<WorkItem> handles
    results_q,        \* buffer of the mpsc channel (WorkerOutputs)
    results_senders,  \* live mpsc::Sender<WorkerOutput> handles
    main_results_tx,  \* main still holds results_tx
    seeder_worker_tx, \* the Seeder still holds worker_tx
    w_pc,             \* per worker: none, recv, fetch, decode, extract, send, done
    w_work,           \* per worker: the WorkItem it holds, or None
    w_res,            \* per worker: what the fetch of its WorkItem returned
    w_out,            \* per worker: the output it is about to send
    in_flight,        \* client.get(..).send() calls started and not returned
    deq_log,          \* <<url, worker>> of every successful inbox.recv()
    fetch_log,        \* url of every client.get(url).send() call, in order
    w_emitted,        \* per worker: outputs it put in the results channel
    received,         \* outputs results_rx.recv() returned to main
    saved             \* arguments of the save_crawl calls, in order

vars == <<main_pc, candidates, seeder_pc, seeder_i, enqueued, work_q,
          work_q_cap, fetch_log, work_q_senders, results_q, results_senders,
          main_results_tx,
          seeder_worker_tx, w_pc, w_work, w_res, w_out, in_flight, deq_log,
          w_emitted, received, saved>>

main_vars == <<main_pc, candidates, received, saved, main_results_tx>>
seeder_vars == <<seeder_pc, seeder_i, enqueued, seeder_worker_tx, work_q_senders,
                 work_q_cap>>
worker_vars == <<w_pc, w_work, w_res, w_out, in_flight, deq_log, fetch_log,
                 w_emitted>>

Init ==
    /\ main_pc = "start"
    /\ candidates = <<>>
    /\ seeder_pc = "none"
    /\ seeder_i = 1
    /\ enqueued = 0
    /\ work_q = <<>>
    /\ work_q_cap = QueueCap
    /\ work_q_senders = 0
    /\ results_q = <<>>
    /\ results_senders = 0
    /\ main_results_tx = FALSE
    /\ seeder_worker_tx = FALSE
    /\ w_pc = [w \in Workers |-> "none"]
    /\ w_work = [w \in Workers |-> None]
    /\ w_res = [w \in Workers |-> None]
    /\ w_out = [w \in Workers |-> None]
    /\ in_flight = 0
    /\ deq_log = <<>>
    /\ fetch_log = <<>>
    /\ w_emitted = [w \in Workers |-> 0]
    /\ received = <<>>
    /\ saved = <<>>

\* main has not returned: the runtime is alive and tasks are scheduled.
\* When main returns, #[tokio::main] drops the runtime, which cancels the
\* Seeder and the workers at the await they are suspended in.
\* ("seed" is a position of the inline-seeding design below.)
Running == main_pc \in {"candidates", "seed", "collect", "join"}

(***************************************************************************)
(* main, lines 88-99: create the work queue, build the HTTP client, spawn  *)
(* the workers.  Client::builder().build()? returns early on error.        *)
(***************************************************************************)
MainSetup ==
    /\ main_pc = "start"
    /\ \E built \in BOOLEAN :
        IF built
        THEN /\ main_pc' = "candidates"
             /\ work_q_senders' = 1
             /\ UNCHANGED work_q_cap
             /\ w_pc' = [w \in Workers |-> "recv"]
        ELSE /\ main_pc' = "failed"
             /\ UNCHANGED <<work_q_senders, work_q_cap, w_pc>>
    /\ UNCHANGED <<candidates, seeder_pc, seeder_i, enqueued, work_q, results_q,
                   results_senders, main_results_tx, seeder_worker_tx, w_work,
                   w_res, w_out, in_flight, deq_log, fetch_log, w_emitted, received, saved>>


\* WorkItem { url, circle_back: worker_tx.clone() }
WorkItem(u) == [url |-> u, circle_back |-> TRUE]

(***************************************************************************)
(* main, lines 101-123: read the candidates (returning early on error),    *)
(* create the results channel, clone worker_tx, spawn the Seeder (which    *)
(* takes work_q and worker_tx), drop results_tx.  There is no await        *)
(* between the return of get_uncrawled_items and the first recv.           *)
(* The URLs are the primary key of the items table: distinct.              *)
(***************************************************************************)
\* Variant: main forgets drop(results_tx) and keeps its Sender.
MainGetCandidatesKeepTx ==
    /\ main_pc = "candidates"
    /\ \E found \in BOOLEAN :
        IF found
        THEN \E k \in 0..MaxK :
             /\ candidates' = [i \in 1..k |-> i]
             /\ main_pc' = "collect"
             /\ seeder_pc' = "run"
             /\ seeder_worker_tx' = TRUE
             /\ results_senders' = 1 + 1
             /\ main_results_tx' = TRUE
        ELSE /\ main_pc' = "failed"
             /\ UNCHANGED <<candidates, seeder_pc, seeder_worker_tx,
                            results_senders, main_results_tx>>
    /\ UNCHANGED <<seeder_i, enqueued, work_q, work_q_senders, work_q_cap, results_q,
                   received, saved>>
    /\ UNCHANGED worker_vars

MainGetCandidates ==
    /\ main_pc = "candidates"
    /\ \E found \in BOOLEAN :
        IF found
        THEN \E k \in 0..MaxK :
             /\ candidates' = [i \in 1..k |-> i]
             /\ main_pc' = "collect"
             /\ seeder_pc' = "run"
             /\ seeder_worker_tx' = TRUE
             \* mpsc::channel: 1 handle; results_tx.clone(): 2; drop(results_tx): 1
             /\ results_senders' = (1 + 1) - 1
             /\ main_results_tx' = FALSE
        ELSE /\ main_pc' = "failed"
             /\ UNCHANGED <<candidates, seeder_pc, seeder_worker_tx,
                            results_senders, main_results_tx>>
    /\ UNCHANGED <<seeder_i, enqueued, work_q, work_q_senders, work_q_cap, results_q,
                   received, saved>>
    /\ UNCHANGED worker_vars

(***************************************************************************)
(* The Seeder task, lines 111-120.  work_q.send(..).await suspends while   *)
(* the queue is full.  It returns Err only when every Receiver is gone,    *)
(* which cannot happen while main runs: main keeps `r`.                    *)
(***************************************************************************)
\* Variant: the WorkItem does not own a sender of its own (no clone).
SeederSendNoClone ==
    /\ Running
    /\ seeder_pc = "run"
    /\ seeder_i <= Len(candidates)
    /\ Len(work_q) < work_q_cap
    /\ work_q' = Append(work_q, WorkItem(candidates[seeder_i]))
    /\ enqueued' = enqueued + 1
    /\ seeder_i' = seeder_i + 1
    /\ UNCHANGED <<seeder_pc, seeder_worker_tx, work_q_senders, work_q_cap, results_q,
                   results_senders>>
    /\ UNCHANGED main_vars
    /\ UNCHANGED worker_vars

\* Variant: try_send instead of send, so a full queue loses the request.
SeederTrySend ==
    /\ Running
    /\ seeder_pc = "run"
    /\ seeder_i <= Len(candidates)
    /\ IF Len(work_q) < work_q_cap
       THEN /\ work_q' = Append(work_q, WorkItem(candidates[seeder_i]))
            /\ results_senders' = results_senders + 1
            /\ enqueued' = enqueued + 1
       ELSE UNCHANGED <<work_q, results_senders, enqueued>>
    /\ seeder_i' = seeder_i + 1
    /\ UNCHANGED <<seeder_pc, seeder_worker_tx, work_q_senders, work_q_cap, results_q>>
    /\ UNCHANGED main_vars
    /\ UNCHANGED worker_vars

SeederSend ==
    /\ Running
    /\ seeder_pc = "run"
    /\ seeder_i <= Len(candidates)
    /\ Len(work_q) < work_q_cap
    /\ work_q' = Append(work_q, WorkItem(candidates[seeder_i]))
    /\ results_senders' = results_senders + 1
    /\ enqueued' = enqueued + 1
    /\ seeder_i' = seeder_i + 1
    /\ UNCHANGED <<seeder_pc, seeder_worker_tx, work_q_senders, work_q_cap, results_q>>
    /\ UNCHANGED main_vars
    /\ UNCHANGED worker_vars

\* Variant: the Seeder's Sender of the work queue outlives the task (main
\* kept work_q and gave the task a clone).
SeederFinishKeepsQueue ==
    /\ Running
    /\ seeder_pc = "run"
    /\ seeder_i > Len(candidates)
    /\ seeder_pc' = "done"
    /\ seeder_worker_tx' = FALSE
    /\ results_senders' = results_senders - 1
    /\ UNCHANGED <<work_q_senders, work_q_cap>>
    /\ UNCHANGED <<seeder_i, enqueued, work_q, results_q>>
    /\ UNCHANGED main_vars
    /\ UNCHANGED worker_vars

\* The loop is over: the task ends and drops what it captured
\* (work_q and worker_tx).
SeederFinish ==
    /\ Running
    /\ seeder_pc = "run"
    /\ seeder_i > Len(candidates)
    /\ seeder_pc' = "done"
    /\ seeder_worker_tx' = FALSE
    /\ results_senders' = results_senders - 1
    /\ work_q_senders' = work_q_senders - 1
    /\ UNCHANGED work_q_cap
    /\ UNCHANGED <<seeder_i, enqueued, work_q, results_q>>
    /\ UNCHANGED main_vars
    /\ UNCHANGED worker_vars

(***************************************************************************)
(* spawn_worker, src/worker.rs.                                            *)
(***************************************************************************)
\* Variant: the worker keeps the URL and drops the WorkItem, and with it the
\* circle_back Sender, as soon as it has dequeued it.
WorkerRecvDropsHandle(w) ==
    /\ Running
    /\ w_pc[w] = "recv"
    /\ work_q # <<>>
    /\ w_work' = [w_work EXCEPT ![w] = Head(work_q)]
    /\ work_q' = Tail(work_q)
    /\ results_senders' = results_senders - 1
    /\ deq_log' = Append(deq_log, <<Head(work_q).url, w>>)
    /\ fetch_log' = Append(fetch_log, Head(work_q).url)
    /\ in_flight' = in_flight + 1
    /\ w_pc' = [w_pc EXCEPT ![w] = "fetch"]
    /\ UNCHANGED <<w_res, w_out, w_emitted, results_q>>
    /\ UNCHANGED main_vars
    /\ UNCHANGED seeder_vars

\* Variant: a stack instead of a queue (the newest request is taken first).
WorkerRecvLifo(w) ==
    /\ Running
    /\ w_pc[w] = "recv"
    /\ work_q # <<>>
    /\ w_work' = [w_work EXCEPT ![w] = work_q[Len(work_q)]]
    /\ work_q' = SubSeq(work_q, 1, Len(work_q) - 1)
    /\ deq_log' = Append(deq_log, <<work_q[Len(work_q)].url, w>>)
    /\ fetch_log' = Append(fetch_log, work_q[Len(work_q)].url)
    /\ in_flight' = in_flight + 1
    /\ w_pc' = [w_pc EXCEPT ![w] = "fetch"]
    /\ UNCHANGED <<w_res, w_out, w_emitted, results_q, results_senders>>
    /\ UNCHANGED main_vars
    /\ UNCHANGED seeder_vars

\* Variant: a broadcast channel, whose receivers each see every message
\* (the head stays in the buffer).
WorkerRecvBroadcast(w) ==
    /\ Running
    /\ w_pc[w] = "recv"
    /\ work_q # <<>>
    /\ w_work' = [w_work EXCEPT ![w] = Head(work_q)]
    /\ deq_log' = Append(deq_log, <<Head(work_q).url, w>>)
    /\ fetch_log' = Append(fetch_log, Head(work_q).url)
    /\ in_flight' = in_flight + 1
    /\ w_pc' = [w_pc EXCEPT ![w] = "fetch"]
    /\ UNCHANGED <<w_res, w_out, w_emitted, work_q, results_q, results_senders>>
    /\ UNCHANGED main_vars
    /\ UNCHANGED seeder_vars

\* Variant: the fetch is started as a detached task and the loop receives
\* again without awaiting it.
WorkerRecvDetached(w) ==
    /\ Running
    /\ w_pc[w] = "recv"
    /\ work_q # <<>>
    /\ work_q' = Tail(work_q)
    /\ deq_log' = Append(deq_log, <<Head(work_q).url, w>>)
    /\ fetch_log' = Append(fetch_log, Head(work_q).url)
    /\ in_flight' = in_flight + 1
    /\ UNCHANGED <<w_pc, w_work, w_res, w_out, w_emitted, results_q, results_senders>>
    /\ UNCHANGED main_vars
    /\ UNCHANGED seeder_vars

\* line 32, Ok(work): take the head of the queue; line 34: start the fetch.
WorkerRecv(w) ==
    /\ Running
    /\ w_pc[w] = "recv"
    /\ work_q # <<>>
    /\ w_work' = [w_work EXCEPT ![w] = Head(work_q)]
    /\ work_q' = Tail(work_q)
    /\ deq_log' = Append(deq_log, <<Head(work_q).url, w>>)
    /\ fetch_log' = Append(fetch_log, Head(work_q).url)
    /\ in_flight' = in_flight + 1
    /\ w_pc' = [w_pc EXCEPT ![w] = "fetch"]
    /\ UNCHANGED <<w_res, w_out, w_emitted, results_q, results_senders>>
    /\ UNCHANGED main_vars
    /\ UNCHANGED seeder_vars

\* Variant: try_recv, which also fails on a queue that is only empty.
WorkerExitOnEmpty(w) ==
    /\ Running
    /\ w_pc[w] = "recv"
    /\ work_q = <<>>
    /\ w_pc' = [w_pc EXCEPT ![w] = "done"]
    /\ UNCHANGED <<w_work, w_res, w_out, in_flight, deq_log, fetch_log, w_emitted,
                   work_q, results_q, results_senders>>
    /\ UNCHANGED main_vars
    /\ UNCHANGED seeder_vars

\* line 32, Err: the queue is empty and every Sender is dropped; the loop
\* and the task end.
WorkerExit(w) ==
    /\ Running
    /\ w_pc[w] = "recv"
    /\ work_q = <<>>
    /\ work_q_senders = 0
    /\ w_pc' = [w_pc EXCEPT ![w] = "done"]
    /\ UNCHANGED <<w_work, w_res, w_out, in_flight, deq_log, fetch_log, w_emitted,
                   work_q, results_q, results_senders>>
    /\ UNCHANGED main_vars
    /\ UNCHANGED seeder_vars

\* Variant: send()?.error_for_status(), which turns a 4xx or 5xx response
\* into a failed fetch.
WorkerFetchErrorForStatus(w) ==
    /\ Running
    /\ w_pc[w] = "fetch"
    /\ in_flight' = in_flight - 1
    /\ \E res \in FetchResults :
        /\ w_res' = [w_res EXCEPT ![w] = res]
        /\ IF res.ok /\ res.status < 400
           THEN /\ w_pc' = [w_pc EXCEPT ![w] = "decode"]
                /\ UNCHANGED w_out
           ELSE /\ w_out' = [w_out EXCEPT ![w] =
                               ErrOutput(w_work[w].url, "failed to fetch",
                                         w_work[w].url)]
                /\ w_pc' = [w_pc EXCEPT ![w] = "send"]
    /\ UNCHANGED <<w_work, deq_log, fetch_log, w_emitted, work_q, results_q, results_senders>>
    /\ UNCHANGED main_vars
    /\ UNCHANGED seeder_vars

\* Variant: a failed fetch is tried a second time.
WorkerFetchRetry(w) ==
    /\ Running
    /\ w_pc[w] = "fetch"
    /\ \E res \in FetchResults :
        /\ w_res' = [w_res EXCEPT ![w] = res]
        /\ IF res.ok
           THEN /\ w_pc' = [w_pc EXCEPT ![w] = "decode"]
                /\ in_flight' = in_flight - 1
                /\ UNCHANGED <<w_out, fetch_log>>
           ELSE IF w_res[w] = None
           THEN /\ fetch_log' = Append(fetch_log, w_work[w].url)
                /\ UNCHANGED <<w_pc, w_out, in_flight>>
           ELSE /\ w_out' = [w_out EXCEPT ![w] =
                               ErrOutput(w_work[w].url, "failed to fetch",
                                         w_work[w].url)]
                /\ w_pc' = [w_pc EXCEPT ![w] = "send"]
                /\ in_flight' = in_flight - 1
                /\ UNCHANGED fetch_log
    /\ UNCHANGED <<w_work, deq_log, w_emitted, work_q, results_q, results_senders>>
    /\ UNCHANGED main_vars
    /\ UNCHANGED seeder_vars

\* Variant: a failed fetch is skipped (`continue`) without reporting it.
WorkerFetchNoReport(w) ==
    /\ Running
    /\ w_pc[w] = "fetch"
    /\ in_flight' = in_flight - 1
    /\ \E res \in FetchResults :
        IF res.ok
        THEN /\ w_res' = [w_res EXCEPT ![w] = res]
             /\ w_pc' = [w_pc EXCEPT ![w] = "decode"]
             /\ UNCHANGED <<w_work, results_senders>>
        ELSE /\ w_pc' = [w_pc EXCEPT ![w] = "recv"]
             /\ w_work' = [w_work EXCEPT ![w] = None]
             /\ results_senders' = results_senders - 1
             /\ UNCHANGED w_res
    /\ UNCHANGED <<w_out, deq_log, fetch_log, w_emitted, work_q, results_q>>
    /\ UNCHANGED main_vars
    /\ UNCHANGED seeder_vars

\* lines 34-42: the fetch returns.
WorkerFetch(w) ==
    /\ Running
    /\ w_pc[w] = "fetch"
    /\ in_flight' = in_flight - 1
    /\ \E res \in FetchResults :
        /\ w_res' = [w_res EXCEPT ![w] = res]
        /\ IF res.ok
           THEN /\ w_pc' = [w_pc EXCEPT ![w] = "decode"]
                /\ UNCHANGED w_out
           ELSE /\ w_out' = [w_out EXCEPT ![w] =
                               ErrOutput(w_work[w].url, "failed to fetch",
                                         w_work[w].url)]
                /\ w_pc' = [w_pc EXCEPT ![w] = "send"]
    /\ UNCHANGED <<w_work, deq_log, fetch_log, w_emitted, work_q, results_q, results_senders>>
    /\ UNCHANGED main_vars
    /\ UNCHANGED seeder_vars

\* Variant: a body that cannot be decoded is skipped without reporting it.
WorkerDecodeNoReport(w) ==
    /\ Running
    /\ w_pc[w] = "decode"
    /\ IF Decode(w_res[w].body).ok
       THEN /\ w_pc' = [w_pc EXCEPT ![w] = "extract"]
            /\ UNCHANGED <<w_work, w_res, results_senders>>
       ELSE /\ w_pc' = [w_pc EXCEPT ![w] = "recv"]
            /\ w_work' = [w_work EXCEPT ![w] = None]
            /\ w_res' = [w_res EXCEPT ![w] = None]
            /\ results_senders' = results_senders - 1
    /\ UNCHANGED <<w_out, in_flight, deq_log, fetch_log, w_emitted, work_q, results_q>>
    /\ UNCHANGED main_vars
    /\ UNCHANGED seeder_vars

\* lines 45-51: res.text().await returns.
WorkerDecode(w) ==
    /\ Running
    /\ w_pc[w] = "decode"
    /\ LET d == Decode(w_res[w].body) IN
        IF d.ok
        THEN /\ w_pc' = [w_pc EXCEPT ![w] = "extract"]
             /\ UNCHANGED w_out
        ELSE /\ w_out' = [w_out EXCEPT ![w] =
                            ErrOutput(w_work[w].url, "failed to decode response from",
                                      w_work[w].url)]
             /\ w_pc' = [w_pc EXCEPT ![w] = "send"]
    /\ UNCHANGED <<w_work, w_res, in_flight, deq_log, fetch_log, w_emitted, work_q, results_q,
                   results_senders>>
    /\ UNCHANGED main_vars
    /\ UNCHANGED seeder_vars

\* Variant: a page the parser finds no content in is passed on as an article
\* (parse().unwrap_or_default()).
ExtractionOutputLenient(u, status, html) ==
    CASE Readability(html) = "ok"    -> OkArticle(u, status, html)
      [] Readability(html) = "err"   -> OkArticle(u, status, html)
      [] Readability(html) = "panic" ->
            ErrOutput(u, "dom_smoothie parser panicked on", u)

\* Variant: the arms of the match are swapped for the two extraction failures.
ExtractionOutputSwapped(u, status, html) ==
    CASE Readability(html) = "ok"    -> OkArticle(u, status, html)
      [] Readability(html) = "err"   ->
            ErrOutput(u, "dom_smoothie parser panicked on", u)
      [] Readability(html) = "panic" -> ErrOutput(u, "failed to parse", 0)

\* lines 56-86: spawn_blocking(..).await returns; the match picks the output.
\* The error of Ok(Err(e)) is "failed to parse {e:?}": it names no URL.
ExtractionOutput(u, status, html) ==
    CASE Readability(html) = "ok"    -> OkArticle(u, status, html)
      [] Readability(html) = "err"   -> ErrOutput(u, "failed to parse", 0)
      [] Readability(html) = "panic" ->
            ErrOutput(u, "dom_smoothie parser panicked on", u)

\* Variant: the extraction runs inline, so its panic unwinds the worker task.
WorkerExtractUnwind(w) ==
    /\ Running
    /\ w_pc[w] = "extract"
    /\ IF Readability(Decode(w_res[w].body).html) = "panic"
       THEN /\ w_pc' = [w_pc EXCEPT ![w] = "done"]
            /\ w_work' = [w_work EXCEPT ![w] = None]
            /\ w_res' = [w_res EXCEPT ![w] = None]
            /\ results_senders' = results_senders - 1
            /\ UNCHANGED w_out
       ELSE /\ w_out' = [w_out EXCEPT ![w] =
                           ExtractionOutput(w_work[w].url, w_res[w].status,
                                            Decode(w_res[w].body).html)]
            /\ w_pc' = [w_pc EXCEPT ![w] = "send"]
            /\ UNCHANGED <<w_work, w_res, results_senders>>
    /\ UNCHANGED <<in_flight, deq_log, fetch_log, w_emitted, work_q, results_q>>
    /\ UNCHANGED main_vars
    /\ UNCHANGED seeder_vars

WorkerExtract(w) ==
    /\ Running
    /\ w_pc[w] = "extract"
    /\ w_out' = [w_out EXCEPT ![w] =
                    ExtractionOutput(w_work[w].url, w_res[w].status,
                                     Decode(w_res[w].body).html)]
    /\ w_pc' = [w_pc EXCEPT ![w] = "send"]
    /\ UNCHANGED <<w_work, w_res, in_flight, deq_log, fetch_log, w_emitted, work_q, results_q,
                   results_senders>>
    /\ UNCHANGED main_vars
    /\ UNCHANGED seeder_vars

\* Variant: try_send, which gives up the output when the channel is full.
WorkerTrySend(w) ==
    /\ Running
    /\ w_pc[w] = "send"
    /\ IF Len(results_q) < ResultCap
       THEN /\ results_q' = Append(results_q, w_out[w])
            /\ w_emitted' = [w_emitted EXCEPT ![w] = w_emitted[w] + 1]
       ELSE UNCHANGED <<results_q, w_emitted>>
    /\ results_senders' = results_senders - 1
    /\ w_work' = [w_work EXCEPT ![w] = None]
    /\ w_res' = [w_res EXCEPT ![w] = None]
    /\ w_out' = [w_out EXCEPT ![w] = None]
    /\ w_pc' = [w_pc EXCEPT ![w] = "recv"]
    /\ UNCHANGED <<in_flight, deq_log, fetch_log, work_q>>
    /\ UNCHANGED main_vars
    /\ UNCHANGED seeder_vars

\* work.circle_back.send(..).await returns (it suspends while the channel is
\* full); then `work` goes out of scope, which drops its circle_back.
\* The send returns Err only when results_rx is gone, which cannot happen
\* while main runs.
WorkerSend(w) ==
    /\ Running
    /\ w_pc[w] = "send"
    /\ Len(results_q) < ResultCap
    /\ results_q' = Append(results_q, w_out[w])
    /\ w_emitted' = [w_emitted EXCEPT ![w] = w_emitted[w] + 1]
    /\ results_senders' = results_senders - 1
    /\ w_work' = [w_work EXCEPT ![w] = None]
    /\ w_res' = [w_res EXCEPT ![w] = None]
    /\ w_out' = [w_out EXCEPT ![w] = None]
    /\ w_pc' = [w_pc EXCEPT ![w] = "recv"]
    /\ UNCHANGED <<in_flight, deq_log, fetch_log, work_q>>
    /\ UNCHANGED main_vars
    /\ UNCHANGED seeder_vars

(***************************************************************************)
(* The result loop of main, lines 125-140.                                 *)
(***************************************************************************)
\* Db::save_crawl: the UPDATE succeeds or returns an error.
SaveCrawlResults == {"ok", "err"}

\* Variant: every output is handed to save_crawl, failures included.
MainRecvSaveAll ==
    /\ main_pc = "collect"
    /\ results_q # <<>>
    /\ LET o == Head(results_q) IN
        /\ results_q' = Tail(results_q)
        /\ received' = Append(received, o)
        /\ \E r \in SaveCrawlResults :
            /\ saved' = Append(saved, [url |-> o.url, status |-> o.status,
                                       html |-> o.html, result |-> r])
            /\ main_pc' = IF r = "ok" THEN "collect" ELSE "aborted"
    /\ UNCHANGED <<candidates, main_results_tx, work_q, results_senders>>
    /\ UNCHANGED seeder_vars
    /\ UNCHANGED worker_vars

\* Variant: a worker error is propagated with `?` instead of being printed.
MainRecvPropagate ==
    /\ main_pc = "collect"
    /\ results_q # <<>>
    /\ LET o == Head(results_q) IN
        /\ results_q' = Tail(results_q)
        /\ received' = Append(received, o)
        /\ IF o.ok
           THEN \E r \in SaveCrawlResults :
                /\ saved' = Append(saved, [url |-> o.url, status |-> o.status,
                                           html |-> o.html, result |-> r])
                /\ main_pc' = IF r = "ok" THEN "collect" ELSE "aborted"
           ELSE /\ main_pc' = "aborted"
                /\ UNCHANGED saved
    /\ UNCHANGED <<candidates, main_results_tx, work_q, results_senders>>
    /\ UNCHANGED seeder_vars
    /\ UNCHANGED worker_vars

\* results_rx.recv() returns Some(output).  Ok(article): print and
\* save_crawl(article).await?  Err(err): eprintln.
MainRecv ==
    /\ main_pc = "collect"
    /\ results_q # <<>>
    /\ LET o == Head(results_q) IN
        /\ results_q' = Tail(results_q)
        /\ received' = Append(received, o)
        /\ IF o.ok
           THEN \E r \in SaveCrawlResults :
                /\ saved' = Append(saved, [url |-> o.url, status |-> o.status,
                                           html |-> o.html, result |-> r])
                /\ main_pc' = IF r = "ok" THEN "collect" ELSE "aborted"
           ELSE UNCHANGED <<saved, main_pc>>
    /\ UNCHANGED <<candidates, main_results_tx, work_q, results_senders>>
    /\ UNCHANGED seeder_vars
    /\ UNCHANGED worker_vars

\* Variant: try_recv, which ends the loop on a buffer that is only empty.
MainEndOfStreamEager ==
    /\ main_pc = "collect"
    /\ results_q = <<>>
    /\ main_pc' = "join"
    /\ UNCHANGED <<candidates, received, saved, main_results_tx, work_q, results_q,
                   results_senders>>
    /\ UNCHANGED seeder_vars
    /\ UNCHANGED worker_vars

\* results_rx.recv() returns None: the buffer is empty and no Sender is left.
MainEndOfStream ==
    /\ main_pc = "collect"
    /\ results_q = <<>>
    /\ results_senders = 0
    /\ main_pc' = "join"
    /\ UNCHANGED <<candidates, received, saved, main_results_tx, work_q, results_q,
                   results_senders>>
    /\ UNCHANGED seeder_vars
    /\ UNCHANGED worker_vars

\* line 143: workers.join_all().await returns when every worker task ended.
MainJoin ==
    /\ main_pc = "join"
    /\ \A w \in Workers : w_pc[w] = "done"
    /\ main_pc' = "done"
    /\ UNCHANGED <<candidates, received, saved, main_results_tx, work_q, results_q,
                   results_senders>>
    /\ UNCHANGED seeder_vars
    /\ UNCHANGED worker_vars

Next ==
    \/ MainSetup
    \/ MainGetCandidates
    \/ SeederSend
    \/ SeederFinish
    \/ \E w \in Workers : WorkerRecv(w)
    \/ \E w \in Workers : WorkerExit(w)
    \/ \E w \in Workers : WorkerFetch(w)
    \/ \E w \in Workers : WorkerDecode(w)
    \/ \E w \in Workers : WorkerExtract(w)
    \/ \E w \in Workers : WorkerSend(w)
    \/ MainRecv
    \/ MainEndOfStream
    \/ MainJoin

Spec == Init /\ [][Next]_vars


\* The same program on a work queue with room for one more request, so
\* that several requests wait in the queue at once.
InitRoomy ==
    /\ main_pc = "start"
    /\ candidates = <<>>
    /\ seeder_pc = "none"
    /\ seeder_i = 1
    /\ enqueued = 0
    /\ work_q = <<>>
    /\ work_q_cap = QueueCap + 1
    /\ work_q_senders = 0
    /\ results_q = <<>>
    /\ results_senders = 0
    /\ main_results_tx = FALSE
    /\ seeder_worker_tx = FALSE
    /\ w_pc = [w \in Workers |-> "none"]
    /\ w_work = [w \in Workers |-> None]
    /\ w_res = [w \in Workers |-> None]
    /\ w_out = [w \in Workers |-> None]
    /\ in_flight = 0
    /\ deq_log = <<>>
    /\ fetch_log = <<>>
    /\ w_emitted = [w \in Workers |-> 0]
    /\ received = <<>>
    /\ saved = <<>>

SpecRoomy == InitRoomy /\ [][Next]_vars

(***************************************************************************)
(* The design the comment of main.rs lines 109-110 rules out ("Spawn a     *)
(* Seeder task so we can start consuming results while we're still pushing *)
(* work on the queue"): main runs the loop of lines 112-119 itself and     *)
(* starts the result loop after it.  There is no Seeder task (seeder_pc    *)
(* stays "none"); main holds work_q, worker_tx and results_tx while it     *)
(* seeds and drops them before its first recv.                             *)
(***************************************************************************)
\* Candidates enough to fill the queue, the workers and the results channel,
\* and one more.
InlineMaxK == QueueCap + NumWorkers + ResultCap + 1

MainGetCandidatesInline ==
    /\ main_pc = "candidates"
    /\ \E k \in 0..InlineMaxK :
         /\ candidates' = [i \in 1..k |-> i]
         /\ main_pc' = "seed"
         /\ seeder_worker_tx' = TRUE
         /\ results_senders' = 1 + 1
         /\ main_results_tx' = TRUE
    /\ UNCHANGED <<seeder_pc, seeder_i, enqueued, work_q, work_q_senders, work_q_cap,
                   results_q, received, saved>>
    /\ UNCHANGED worker_vars

MainSeedSend ==
    /\ main_pc = "seed"
    /\ seeder_i <= Len(candidates)
    /\ Len(work_q) < work_q_cap
    /\ work_q' = Append(work_q, WorkItem(candidates[seeder_i]))
    /\ results_senders' = results_senders + 1
    /\ enqueued' = enqueued + 1
    /\ seeder_i' = seeder_i + 1
    /\ UNCHANGED <<seeder_pc, seeder_worker_tx, work_q_senders, work_q_cap, results_q>>
    /\ UNCHANGED main_vars
    /\ UNCHANGED worker_vars

MainSeedDone ==
    /\ main_pc = "seed"
    /\ seeder_i > Len(candidates)
    /\ main_pc' = "collect"
    /\ work_q_senders' = work_q_senders - 1
    /\ seeder_worker_tx' = FALSE
    /\ main_results_tx' = FALSE
    /\ results_senders' = results_senders - 2
    /\ UNCHANGED <<candidates, received, saved, seeder_pc, seeder_i, enqueued,
                   work_q, work_q_cap, results_q>>
    /\ UNCHANGED worker_vars

\* Both designs: the program's, and the inline seeding.
NextDesigns ==
    \/ Next
    \/ MainGetCandidatesInline
    \/ MainSeedSend
    \/ MainSeedDone

SpecDesigns == Init /\ [][NextDesigns]_vars

(***************************************************************************)
(* Scheduling.  The tokio runtime polls every task that is ready, and the  *)
(* channels wake the tasks waiting on them: every step of main, of the     *)
(* Seeder and of a worker happens once it stays possible.  The one         *)
(* exception is the return of client.get(..).send(): the Client is built   *)
(* with a user agent only (main.rs line 91), no timeout, so the call       *)
(* returns when the origin answers or the connection fails, and not        *)
(* otherwise.                                                              *)
(***************************************************************************)
FairSpec ==
    /\ Spec
    /\ WF_vars(MainSetup)
    /\ WF_vars(MainGetCandidates)
    /\ WF_vars(SeederSend)
    /\ WF_vars(SeederFinish)
    /\ \A w \in Workers :
        /\ WF_vars(WorkerRecv(w))
        /\ WF_vars(WorkerExit(w))
        /\ WF_vars(WorkerDecode(w))
        /\ WF_vars(WorkerExtract(w))
        /\ WF_vars(WorkerSend(w))
    /\ WF_vars(MainRecv)
    /\ WF_vars(MainEndOfStream)
    /\ WF_vars(MainJoin)

(***************************************************************************)
(* What main prints during a crawl.  Line 102: "Found {} candidates for    *)
(* crawling"; lines 129-135, for an Ok(article): "{status} - {url} {} bytes *)
(* of text, ~{} tokens"; line 138, for an Err(err): "Worker error: {err}". *)
(* Nothing is printed after the result loop (lines 141-144).               *)
(***************************************************************************)
PrintedFor(o) ==
    IF o.ok
    THEN [kind |-> "article", url |-> o.url, status |-> o.status,
          msg |-> "bytes of text", n |-> 0]
    ELSE [kind |-> "worker-error", url |-> o.url, status |-> 0,
          msg |-> o.msg, n |-> 0]

Printed ==
    IF main_pc \in {"collect", "join", "done", "aborted"}
    THEN <<[kind |-> "found", url |-> 0, status |-> 0,
            msg |-> "candidates for crawling", n |-> Len(candidates)]>>
            \o [i \in DOMAIN received |-> PrintedFor(received[i])]
    ELSE <<>>

(***************************************************************************)
(* The items table, src/db.rs.  A row is keyed by its url; of its columns  *)
(* the model keeps html and http_status_last_crawl, both NULL until a      *)
(* crawl is saved.  Row 0 is an item crawled by an earlier run; the other  *)
(* rows are the items get_uncrawled_items returned to this run.            *)
(***************************************************************************)
NullRow == [html |-> "NULL", status |-> 0]

DbBefore ==
    [u \in 0..Len(candidates) |->
        IF u = 0 THEN [html |-> "article", status |-> 200] ELSE NullRow]

\* Variant: the UPDATE sets the crawl time and status and leaves html out.
SaveCrawlNoHtml(db, crawl) ==
    IF crawl.result = "ok" /\ crawl.url \in DOMAIN db
    THEN [db EXCEPT ![crawl.url] = [html |-> @.html, status |-> crawl.status]]
    ELSE db

\* Db::save_crawl, lines 101-121: UPDATE items SET .., http_status_last_crawl
\* = ?, html = ?, .. WHERE url = ?.  A call that returned Err changed
\* nothing, and so does one whose url matches no row.
SaveCrawl(db, crawl) ==
    IF crawl.result = "ok" /\ crawl.url \in DOMAIN db
    THEN [db EXCEPT ![crawl.url] = [html |-> crawl.html, status |-> crawl.status]]
    ELSE db

\* The table after the save_crawl calls `calls`, applied in order.
RECURSIVE ApplySaves(_, _)
ApplySaves(db, calls) ==
    IF calls = <<>> THEN db
    ELSE ApplySaves(SaveCrawl(db, Head(calls)), Tail(calls))

DbNow == ApplySaves(DbBefore, saved)

\* Db::get_uncrawled_items, lines 77-99: SELECT url FROM items WHERE html IS
\* NULL [LIMIT n], in the order of the table.  limit = -1 stands for None.
GetUncrawledItems(db, limit) ==
    LET keys == [i \in 1..Cardinality(DOMAIN db) |-> i - 1]
        IsUncrawled(u) == db[u].html = "NULL"
        rows == SelectSeq(keys, IsUncrawled)
    IN  IF limit < 0 \/ limit >= Len(rows) THEN rows
        ELSE SubSeq(rows, 1, limit)

(***************************************************************************)
(* Properties.                                                             *)
(***************************************************************************)
Range(s) == {s[i] : i \in DOMAIN s}

\* Positions of `received` holding an output produced for request u.
ReceivedFor(u) == {i \in DOMAIN received : received[i].req = u}

\* Positions of deq_log at which worker w / request u appears.
DequeuedBy(w) == {i \in DOMAIN deq_log : deq_log[i][2] = w}
DequeuesOf(u) == {i \in DOMAIN deq_log : deq_log[i][1] = u}

\* The URL of every WorkItem of a queue, in order.
Urls(q) == [i \in DOMAIN q |-> q[i].url]
DequeuedUrls == [i \in DOMAIN deq_log |-> deq_log[i][1]]

\* main returned Ok after joining the workers.
Joined == main_pc = "done"

\* C1 (conservation): main never receives an output for a URL that is not a
\* candidate, never receives two outputs for the same candidate, and when the
\* run has completed it has received exactly one output for each of the K
\* candidates (K = 0 .. MaxK, MaxK above the queue capacity).
C1_Conservation ==
    /\ \A i \in DOMAIN received : received[i].req \in Range(candidates)
    /\ \A u \in Range(candidates) : Cardinality(ReceivedFor(u)) <= 1
    /\ Joined =>
        /\ Len(received) = Len(candidates)
        /\ \A u \in Range(candidates) : Cardinality(ReceivedFor(u)) = 1

C1_Witness ==
    /\ Joined
    /\ Len(candidates) > QueueCap
    /\ Len(received) = Len(candidates)

\* C2 (no deadlock under backpressure): once the crawl of K > QueueCap
\* candidates has begun, the pipeline never stops before completion: in every
\* state either main has joined the workers or some step is still possible.
C2_ReachesCompletion ==
    (main_pc \in {"collect", "join", "done", "aborted"} /\ Len(candidates) > QueueCap)
        => (Joined \/ ENABLED Next)

\* C3 (work queue bound, no drop): the work queue never holds more than
\* QueueCap requests; the requests the Seeder has passed are exactly the ones
\* dequeued so far followed by the ones in the queue, so none was dropped; and
\* when the Seeder is done, or the run is complete, all K were enqueued.
C3_QueueBoundNoDrop ==
    /\ Len(work_q) <= QueueCap
    /\ enqueued = seeder_i - 1
    /\ DequeuedUrls \o Urls(work_q) = SubSeq(candidates, 1, seeder_i - 1)
    /\ (seeder_pc = "done" \/ Joined) => enqueued = Len(candidates)

\* The Seeder is suspended in send on a full queue with a request in hand.
C3_Witness ==
    /\ seeder_pc = "run"
    /\ Len(work_q) = QueueCap
    /\ seeder_i <= Len(candidates)
    /\ enqueued >= 1

\* C4 (fetch bound): the fetches in flight are one per worker that is inside
\* client.get(..).send(), so never more than the number of workers.
C4_FetchBound ==
    /\ in_flight = Cardinality({w \in Workers : w_pc[w] = "fetch"})
    /\ in_flight <= NumWorkers

C4_Witness == in_flight = NumWorkers


\* The first stage that fails for a fetch result, "none" when none does.
FirstError(res) ==
    IF ~res.ok THEN "transport-error"
    ELSE IF ~Decode(res.body).ok THEN "decode-error"
    ELSE CASE Readability(Decode(res.body).html) = "ok"    -> "none"
           [] Readability(Decode(res.body).html) = "err"   -> "extraction-error"
           [] Readability(Decode(res.body).html) = "panic" -> "extraction-panic"

\* A worker is inside one iteration of its loop, holding a request.
Busy(w) == w_pc[w] \in {"fetch", "decode", "extract", "send"}

\* A worker task has ended only by the end-of-stream of the work queue.
EndedByEndOfStream(w) ==
    w_pc[w] = "done" => (work_q = <<>> /\ work_q_senders = 0)

RECURSIVE SumOver(_, _)
SumOver(f, S) ==
    IF S = {} THEN 0
    ELSE LET x == CHOOSE y \in S : TRUE IN f[x] + SumOver(f, S \ {x})

\* C5 (isolation): when the extraction of a request panics, the worker's
\* output for that request is the failure "parser panicked" (extraction-panic);
\* no worker task ends for any reason but the end-of-stream of the work queue;
\* and when the run has completed every candidate has an output.
C5_Isolation ==
    /\ \A w \in Workers :
        (w_pc[w] = "send" /\ FirstError(w_res[w]) = "extraction-panic")
            => /\ ~w_out[w].ok
               /\ Reason(w_out[w]) = "extraction-panic"
               /\ w_out[w].req = w_work[w].url
    /\ \A w \in Workers : EndedByEndOfStream(w)
    /\ Joined => \A u \in Range(candidates) : ReceivedFor(u) # {}

\* A worker dequeued a request whose extraction panicked and later dequeued
\* another one, and main received the outputs of both.
C5_Witness ==
    \E w \in Workers : \E i, j \in DequeuedBy(w) :
        /\ i < j
        /\ \E m \in ReceivedFor(deq_log[i][1]) :
            Reason(received[m]) = "extraction-panic"
        /\ ReceivedFor(deq_log[j][1]) # {}

\* C6 (exactly-once delivery of requests): no request is dequeued twice, every
\* dequeued request is one the Seeder enqueued, no two workers hold the same
\* request, and when the run has completed every candidate was dequeued
\* exactly once and the queue is empty.
C6_DequeuedOnce ==
    /\ \A u \in Range(candidates) : Cardinality(DequeuesOf(u)) <= 1
    /\ \A i \in DOMAIN deq_log :
        /\ deq_log[i][1] \in Range(SubSeq(candidates, 1, enqueued))
        /\ deq_log[i][2] \in Workers
    /\ \A v, w \in Workers :
        (v # w /\ w_work[v] # None /\ w_work[w] # None)
            => w_work[v].url # w_work[w].url
    /\ Joined =>
        /\ work_q = <<>>
        /\ \A u \in Range(candidates) : Cardinality(DequeuesOf(u)) = 1

\* The run completed with requests delivered to two different workers.
C6_Witness ==
    /\ Joined
    /\ \E i, j \in DOMAIN deq_log : deq_log[i][2] # deq_log[j][2]

\* C7 (one output per dequeued request): each worker has put in the results
\* channel one output per request it dequeued, except for the request it is
\* still working on; the output it is about to send is for the request it
\* holds; between iterations it holds none; and every output put in the
\* channel is in its buffer or was received by main.
C7_OneOutputPerRequest ==
    /\ \A w \in Workers :
        /\ Cardinality(DequeuedBy(w)) = w_emitted[w] + (IF Busy(w) THEN 1 ELSE 0)
        /\ w_pc[w] = "send" => (w_out[w] # None /\ w_out[w].req = w_work[w].url)
        /\ ~Busy(w) => (w_work[w] = None /\ w_out[w] = None)
    /\ SumOver(w_emitted, Workers) = Len(results_q) + Len(received)

\* One worker handled two requests, one ending in a failure and one in a
\* success, and is ready to receive again.
C7_Witness ==
    \E w \in Workers : \E i, j \in DequeuedBy(w) :
        /\ w_emitted[w] = 2
        /\ w_pc[w] = "recv"
        /\ \E m \in ReceivedFor(deq_log[i][1]) : ~received[m].ok
        /\ \E m \in ReceivedFor(deq_log[j][1]) : received[m].ok

\* The live mpsc::Sender handles: results_tx of main, worker_tx of the Seeder,
\* and the circle_back of every WorkItem in the queue or held by a worker.
Holders ==
    (IF main_results_tx THEN 1 ELSE 0)
        + (IF seeder_worker_tx THEN 1 ELSE 0)
        + Len(work_q)
        + Cardinality({w \in Workers : w_work[w] # None})

\* C8 (closing of the results channel): the channel has no sender left only
\* when every handle is dropped, and main has seen the end-of-stream only in
\* states where the buffer is empty and no handle is alive.
C8_CloseAfterAllDropped ==
    /\ (seeder_pc # "none" /\ results_senders = 0) => Holders = 0
    /\ main_pc \in {"join", "done"} => (results_q = <<>> /\ Holders = 0)

\* main saw the end-of-stream after outputs had gone through the channel.
C8_Witness ==
    /\ main_pc = "join"
    /\ Len(received) >= 1

\* The successes among the received outputs, in order of receipt.
IsOk(o) == o.ok
OkReceived == SelectSeq(received, IsOk)

\* C9 (persistence per success): the save_crawl calls are, in order, exactly
\* the successes received: one call per success, none for a failure.
C9_SaveOncePerSuccess ==
    /\ Len(saved) = Len(OkReceived)
    /\ \A i \in DOMAIN saved :
        /\ saved[i].url = OkReceived[i].req
        /\ saved[i].status = OkReceived[i].status

\* A completed run with failures and successes: fewer calls than outputs.
C9_Witness ==
    /\ Joined
    /\ \E i \in DOMAIN received : ~received[i].ok
    /\ Len(saved) >= 1
    /\ Len(saved) < Len(received)

\* C10 (errors are per item): whatever stage fails for a request, the worker's
\* output for it is a failure for that request; worker tasks end only by the
\* end-of-stream of the work queue; main leaves its result loop only at the
\* end-of-stream of the results channel or right after a success; and when
\* the run has completed every output the workers produced was received.
C10_ErrorsArePerItem ==
    /\ \A w \in Workers :
        (w_pc[w] = "send" /\ FirstError(w_res[w]) # "none")
            => /\ ~w_out[w].ok
               /\ w_out[w].req = w_work[w].url
               /\ Reason(w_out[w]) \in {"transport-error", "decode-error",
                                        "extraction-error", "extraction-panic"}
    /\ \A w \in Workers : EndedByEndOfStream(w)
    /\ main_pc = "aborted" => (received # <<>> /\ received[Len(received)].ok)
    /\ main_pc \in {"join", "done"} => (results_q = <<>> /\ results_senders = 0)
    /\ Joined => Len(received) = SumOver(w_emitted, Workers)

\* main received a failure and, after it, another output; the run completed.
C10_Witness ==
    /\ Joined
    /\ \E i, j \in DOMAIN received : i < j /\ ~received[i].ok

\* C11 (only construction-time conditions abort): when the run has returned
\* with an error, no request was enqueued, dequeued or fetched and no output
\* was produced or received: nothing after the start of the crawl makes main
\* return early.
C11_OnlySetupAborts ==
    main_pc \in {"failed", "aborted"}
        => /\ enqueued = 0
           /\ deq_log = <<>>
           /\ fetch_log = <<>>
           /\ received = <<>>
           /\ results_q = <<>>

\* C12 (phase ordering): main joins the workers only after the end-of-stream
\* of the results channel, which comes after the Seeder has finished; and a
\* crawl that has begun returns, in whatever way, only when every worker
\* task has terminated.
C12_PhaseOrder ==
    /\ main_pc \in {"join", "done"}
        => /\ results_q = <<>>
           /\ results_senders = 0
           /\ seeder_pc = "done"
    /\ main_pc \in {"done", "aborted"} => \A w \in Workers : w_pc[w] = "done"

\* C13 (reason is the first failing stage): a worker decodes only a response
\* it fetched, extracts only a body it decoded, and its output for a request
\* names the first stage that failed for that request's own fetch result:
\* a success exactly when no stage failed, carrying the response's status.
C13_ReasonIsFirstFailedStage ==
    \A w \in Workers :
        /\ w_pc[w] = "decode" => w_res[w].ok
        /\ w_pc[w] = "extract" => (w_res[w].ok /\ Decode(w_res[w].body).ok)
        /\ w_pc[w] = "send"
            => /\ Reason(w_out[w]) = FirstError(w_res[w])
               /\ w_out[w].req = w_work[w].url
               /\ w_out[w].ok <=> FirstError(w_res[w]) = "none"
               /\ w_out[w].ok => w_out[w].status = w_res[w].status

\* A worker is about to send an extraction-error while main has already
\* received a failure of an earlier stage and a success.
C13_Witness ==
    /\ \E w \in Workers :
        w_pc[w] = "send" /\ Reason(w_out[w]) = "extraction-error"
    /\ \E i \in DOMAIN received : received[i].ok

\* C14 (no retry): the fetches of a run are, in order, the dequeued requests:
\* one fetch per dequeue, no URL fetched twice, none fetched that was not
\* enqueued.
C14_FetchedAtMostOnce ==
    /\ fetch_log = DequeuedUrls
    /\ \A i, j \in DOMAIN fetch_log : fetch_log[i] = fetch_log[j] => i = j
    /\ \A i \in DOMAIN fetch_log :
        \E k \in 1..enqueued : candidates[k] = fetch_log[i]

\* A completed run of MaxK requests in which a fetch failed and another
\* request failed at a later stage.
C14_Witness ==
    /\ Joined
    /\ Len(fetch_log) = MaxK
    /\ \E i \in DOMAIN received : Reason(received[i]) = "transport-error"
    /\ \E i \in DOMAIN received :
        Reason(received[i]) \in {"decode-error", "extraction-error",
                                 "extraction-panic"}

\* C15 (cooperative shutdown): once the Seeder has finished, a worker that
\* holds a request is never stranded with it: a step of the pipeline remains
\* possible until the worker has finished the request.
C15_CooperativeShutdown ==
    (seeder_pc = "done" /\ \E w \in Workers : Busy(w)) => ENABLED Next

\* C16 (end-of-stream only when closed and drained): a worker task has ended
\* only in a state where the Seeder has sent every candidate and dropped its
\* Sender and no request waits in the work queue.
C16_ExitOnlyAfterDrain ==
    \A w \in Workers :
        w_pc[w] = "done"
            => /\ seeder_pc = "done"
               /\ ~seeder_worker_tx
               /\ enqueued = Len(candidates)
               /\ Len(deq_log) = Len(candidates)
               /\ work_q = <<>>
               /\ work_q_senders = 0

\* One worker has ended while another still holds a request.
C16_Witness ==
    \E w, v \in Workers : w_pc[w] = "done" /\ Busy(v)

\* C17 (FIFO dequeue, unordered outcomes): the i-th dequeue, by whichever
\* worker, returns the i-th candidate the Seeder enqueued, and the requests
\* still waiting are the next candidates, in order.
C17_FifoDequeue ==
    /\ \A i \in DOMAIN deq_log : deq_log[i][1] = candidates[i]
    /\ \A i \in DOMAIN work_q : work_q[i].url = candidates[Len(deq_log) + i]

\* Two workers took the first two requests in order, and main received the
\* output of the second request before the output of the first.
C17_Witness ==
    /\ Len(deq_log) >= 2
    /\ deq_log[1][2] # deq_log[2][2]
    /\ Len(received) >= 2
    /\ received[1].req = candidates[2]
    /\ received[2].req = candidates[1]

\* C18 (fetch timeout): a worker that is fetching eventually leaves the
\* fetch (with a response or a transport-error), unless the run has ended.
C18_FetchEnds ==
    \A w \in Workers : (w_pc[w] = "fetch") ~> (w_pc[w] # "fetch" \/ ~Running)

\* C19 (failures name their URL): every failure main has received carries
\* the URL of the request it was produced for, with one of the four reasons.
C19_FailureNamesUrl ==
    \A i \in DOMAIN received :
        ~received[i].ok
            => /\ received[i].url = received[i].req
               /\ Reason(received[i]) \in {"transport-error", "decode-error",
                                           "extraction-error", "extraction-panic"}

\* C20 (counting): received <= emitted <= dequeued <= enqueued <= K always,
\* and when the run is Joined all five numbers are K.
C20_Counting ==
    /\ Len(received) <= SumOver(w_emitted, Workers)
    /\ SumOver(w_emitted, Workers) <= Len(deq_log)
    /\ Len(deq_log) <= enqueued
    /\ enqueued <= Len(candidates)
    /\ Joined
        => /\ Len(received) = Len(candidates)
           /\ SumOver(w_emitted, Workers) = Len(candidates)
           /\ Len(deq_log) = Len(candidates)
           /\ enqueued = Len(candidates)

\* A run of MaxK requests is Joined, every one of them counted five times.
C20_Witness ==
    /\ Joined
    /\ Len(candidates) = MaxK
    /\ Len(received) = MaxK
    /\ enqueued = MaxK

\* main is past get_uncrawled_items: the crawl of `candidates` has begun.
CrawlBegun == main_pc \in {"collect", "join", "done", "aborted"}

\* C21 (empty run): in a crawl of 0 candidates nothing is dequeued, fetched,
\* produced, received or saved, main never returns early, a step remains
\* possible until main has returned, and main returns only after every
\* worker task has ended.
C21_EmptyRunCompletes ==
    (CrawlBegun /\ Len(candidates) = 0)
        => /\ enqueued = 0
           /\ deq_log = <<>>
           /\ results_q = <<>>
           /\ received = <<>>
           /\ saved = <<>>
           /\ main_pc # "aborted"
           /\ Joined \/ ENABLED Next
           /\ main_pc = "join" => results_senders = 0
           /\ Joined => \A w \in Workers : w_pc[w] = "done"

\* The empty run has returned.
C21_Witness ==
    /\ Joined
    /\ Len(candidates) = 0
    /\ seeder_pc = "done"
    /\ \A w \in Workers : w_pc[w] = "done"

\* Where the output of a dequeued request is: still being made by a worker,
\* in the results channel, or received by main.
HeldBy(u) == {w \in Workers : w_work[w] # None /\ w_work[w].url = u}
InChannel(u) == {i \in DOMAIN results_q : results_q[i].req = u}

\* C22 (capacity of the results channel): the channel never holds more than
\* its capacity; a worker at its send still holds the request and the
\* output and has dequeued nothing since; and every dequeued request is in
\* exactly one place: with its worker, in the channel, or received.
C22_ResultChannelBound ==
    /\ Len(results_q) <= ResultCap
    /\ \A w \in Workers :
        w_pc[w] = "send"
            => /\ w_out[w] # None
               /\ w_work[w] # None
               /\ Cardinality(DequeuedBy(w)) = w_emitted[w] + 1
               /\ \E i \in DequeuedBy(w) : deq_log[i][1] = w_work[w].url
    /\ \A i \in DOMAIN deq_log :
        Cardinality(HeldBy(deq_log[i][1]))
            + Cardinality(InChannel(deq_log[i][1]))
            + Cardinality(ReceivedFor(deq_log[i][1])) = 1

\* The channel is full and a worker waits at its send with the output of
\* another request.
C22_Witness ==
    /\ Len(results_q) = ResultCap
    /\ \E w \in Workers :
        /\ w_pc[w] = "send"
        /\ \A i \in DOMAIN results_q : results_q[i].req # w_out[w].req

\* C23 (a page without content is an extraction-error): whenever a worker
\* has extracted a page Readability finds no content in, whatever its URL
\* and status, its output is the failure "failed to parse"; no output main
\* receives as a success holds such a page; and save_crawl is never called
\* for a request whose output was an extraction-error.
C23_NoContentIsExtractionError ==
    /\ \A w \in Workers :
        (/\ w_pc[w] = "send"
         /\ w_res[w].ok
         /\ Decode(w_res[w].body).ok
         /\ Readability(Decode(w_res[w].body).html) = "err")
            => Reason(w_out[w]) = "extraction-error"
    /\ \A i \in DOMAIN received :
        /\ received[i].ok => Readability(received[i].html) = "ok"
        /\ Reason(received[i]) = "extraction-error"
            => \A j \in DOMAIN saved : saved[j].url # received[i].req

\* Both pages of a completed run had no content: two extraction-errors and
\* no call of save_crawl.
C23_Witness ==
    /\ Joined
    /\ Len(received) = MaxK
    /\ \A i \in DOMAIN received : Reason(received[i]) = "extraction-error"
    /\ saved = <<>>

\* C26 (end-of-stream means nothing is left): in a state where
\* results_rx.recv() returns None, and ever after, the Seeder has finished,
\* the work queue is empty and no worker holds a request; every WorkItem in
\* the queue or held by a worker counts among the live Senders.
C26_EndOfStreamMeansDrained ==
    /\ ((main_pc = "collect" /\ results_q = <<>> /\ results_senders = 0)
            \/ main_pc \in {"join", "done"})
        => /\ seeder_pc = "done"
           /\ enqueued = Len(candidates)
           /\ work_q = <<>>
           /\ \A w \in Workers : ~Busy(w) /\ w_work[w] = None
    /\ seeder_pc # "none"
        => results_senders
             >= Len(work_q) + Cardinality({w \in Workers : Busy(w)})

\* main saw the end-of-stream of a run of MaxK requests while a worker task
\* has not yet ended.
C26_Witness ==
    /\ main_pc = "join"
    /\ Len(received) = MaxK
    /\ \E w \in Workers : w_pc[w] = "recv"

\* C27 (the status does not classify): a response of any status whose body
\* decodes and extracts gives the success carrying that status, and every
\* success received was handed to save_crawl with its URL and status.
C27_StatusDoesNotClassify ==
    /\ \A w \in Workers :
        (w_pc[w] = "send" /\ w_res[w].ok /\ w_res[w].body = "article")
            => w_out[w] = OkArticle(w_work[w].url, w_res[w].status, "article")
    /\ \A i \in DOMAIN received :
        received[i].ok
            => \E j \in DOMAIN saved :
                /\ saved[j].url = received[i].req
                /\ saved[j].status = received[i].status

\* A 404 response with an article was received as a success and saved.
C27_Witness ==
    /\ \E i \in DOMAIN received : received[i].ok /\ received[i].status = 404
    /\ \E j \in DOMAIN saved : saved[j].status = 404 /\ saved[j].result = "ok"

\* The four failure reasons, and how many failures of a reason main received.
Reasons ==
    {"transport-error", "decode-error", "extraction-error", "extraction-panic"}
FailuresWith(r) ==
    Cardinality({i \in DOMAIN received : Reason(received[i]) = r})

\* C24 (end-of-run failure counts): when a run in which a request failed has
\* completed, main has printed a count of failures by reason; each count is
\* the number of failures of that reason received, and the counts and the
\* number of successes add up to K.
C24_FailureCountsReported ==
    (Joined /\ \E i \in DOMAIN received : ~received[i].ok)
        => \E l \in DOMAIN Printed :
            /\ Printed[l].kind = "failure-counts"
            /\ \A r \in Reasons : Printed[l].count[r] = FailuresWith(r)
            /\ Printed[l].total + Len(OkReceived) = Len(candidates)

\* C28 (consecutive runs): this run's candidates are what the table held as
\* uncrawled; when the run has ended, an item whose success was saved is not
\* returned by the next get_uncrawled_items, an item whose output was a
\* failure is returned by it (also under the same LIMIT) with its row
\* unchanged, and the item crawled earlier is never returned.
C28_NextRunCandidates ==
    /\ CrawlBegun => candidates = GetUncrawledItems(DbBefore, -1)
    /\ main_pc \in {"done", "aborted"}
        => /\ \A j \in DOMAIN saved :
                saved[j].result = "ok"
                    => /\ saved[j].url \notin Range(GetUncrawledItems(DbNow, -1))
                       /\ DbNow[saved[j].url].html = saved[j].html
                       /\ DbNow[saved[j].url].status = saved[j].status
           /\ \A i \in DOMAIN received :
                ~received[i].ok
                    => /\ received[i].req
                            \in Range(GetUncrawledItems(DbNow, Len(candidates)))
                       /\ DbNow[received[i].req] = DbBefore[received[i].req]
           /\ 0 \notin Range(GetUncrawledItems(DbNow, -1))

\* A completed run saved one item and failed on the other: the next run's
\* candidates are the failed item alone.
C28_Witness ==
    /\ Joined
    /\ \E i, j \in DOMAIN received :
        /\ received[i].ok
        /\ ~received[j].ok
        /\ GetUncrawledItems(DbNow, -1) = <<received[j].req>>

\* A crawl in the inline design: past get_uncrawled_items with no Seeder task.
Inline == seeder_pc = "none" /\ main_pc \in {"seed", "collect", "join", "done", "aborted"}

\* main has not returned and no task can take a step.
Deadlocked == Running /\ ~ENABLED NextDesigns

====
